---- MODULE Spec2Model ----
(***************************************************************************)
(* Model of the attrition aggregation engine of MAG_attrition_pipeline.py: *)
(* the lineage builder (parse_report_build_label_map), the stream          *)
(* aggregator and table writer (process_fastq, write_attrition_csv) and    *)
(* the reference cache (bins_cache_key, build_or_get_binned_reference).    *)
(* Text is modelled as sequences of one-character strings.                 *)
(***************************************************************************)
EXTENDS Integers, Sequences, FiniteSets, TLC

\* Python's None.
None == "None"

\* ------------------------------------------------------------------ bounds
\* Rank rows of one report.
MaxRows == 8
\* Root-to-leaf branches of the taxonomy tree a report lists.
MaxBranches == 2
\* Records of the two read-stream files of one sample, together.
MaxRecords == 3
\* Half seconds the fragment directory is watched for: one per operation.
MaxClock == 4
\* Pipeline runs that ask for the reference of one directory at a time.
MaxProcs == 2
\* Lines of one classification stream.
MaxLines == 2

VARIABLES
    lineage_by_rank,    \* the rank ladder: rank code -> most recent label
    taxid_to_lineage,   \* taxon id -> lineage string
    rowNo,              \* rank rows read so far
    path,               \* the tree path of the row read last (ancestors, row)
    branches,           \* branches of the tree listed so far
    lastRank,           \* rank code of the rank row read last
    lastTaxid,          \* taxon id of the rank row read last
    read_to_taxid,      \* the classification index: read id -> taxon id
    counts,             \* lineage -> [total, mapped, unmapped]
    counts_order,       \* the keys of counts in insertion order
    gc_sum,             \* lineage -> sum of GC fractions (an exact fraction)
    gc_n,               \* lineage -> GC sample count
    pc,                 \* where write_attrition_csv stands
    file_key,           \* the partition of the pass being read
    error,              \* the exception that ended the run, or None
    consumed,           \* the complete records read in the current pass
    acc0,               \* the accumulator when the current pass started
    nRecords,           \* records read in both passes
    min_reads,          \* the threshold the rows were written with
    rows,               \* the data rows written
    bins,               \* the fragment directory: name -> entry
    cache,              \* the cache directory: artifact path -> file
    clock,              \* the time, in half seconds
    lastCall,           \* the last call of build_or_get_binned_reference
    prevCall,           \* the call before it
    procs,              \* the concurrent invocations: process -> its frame
    classified_only,    \* the flag load_kraken_read_map was called with
    nLines              \* lines of the classification stream read so far

lineageVars == <<lineage_by_rank, taxid_to_lineage, rowNo, path, branches,
                 lastRank, lastTaxid>>

aggVars == <<read_to_taxid, counts, counts_order, gc_sum, gc_n, pc, file_key,
             error, consumed, acc0, nRecords, min_reads, rows>>

cacheVars == <<bins, cache, clock, lastCall, prevCall>>

raceVars == <<procs>>

loadVars == <<classified_only, nLines>>

vars == <<lineageVars, aggVars, cacheVars, raceVars, loadVars>>

\* ------------------------------------------------------------ text helpers
\* The empty mapping (dict()).
EmptyMap == [k \in {} |-> None]

\* d[k] = v, keeping the other keys.
Put(d, k, v) == [x \in DOMAIN d \cup {k} |-> IF x = k THEN v ELSE d[x]]

\* sep.join(parts)
RECURSIVE Join(_, _)
Join(parts, sep) ==
    IF parts = <<>> THEN <<>>
    ELSE IF Len(parts) = 1 THEN parts[1]
    ELSE parts[1] \o <<sep>> \o Join(Tail(parts), sep)

\* s.split(sep): always at least one piece.
RECURSIVE Split(_, _)
Split(s, sep) ==
    IF \E i \in 1..Len(s) : s[i] = sep
    THEN LET i == CHOOSE j \in 1..Len(s) :
                      s[j] = sep /\ \A k \in 1..(j - 1) : s[k] # sep
         IN  <<SubSeq(s, 1, i - 1)>> \o Split(SubSeq(s, i + 1, Len(s)), sep)
    ELSE <<s>>

\* [f(x) for x in s]
RECURSIVE MapLabels(_, _)
MapLabels(ladder, rs) ==
    IF rs = <<>> THEN <<>>
    ELSE <<ladder[Head(rs)]>> \o MapLabels(ladder, Tail(rs))

\* ---------------------------------------------------------- lineage builder
\* The rank codes of the prefix table, top-down.
RankOrder == <<"D", "K", "P", "C", "O", "F", "G", "S">>

Ranks == {RankOrder[i] : i \in 1..Len(RankOrder)}

\* Rank codes a report also carries that the table does not know.
OtherRanks == {"R", "U"}

\* Position of a rank in the ladder (1 = domain).
Depth(rank) == CHOOSE i \in 1..Len(RankOrder) : RankOrder[i] = rank

rank_prefix(rank) ==
    CASE rank = "D" -> "d__"
      [] rank = "K" -> "k__"
      [] rank = "P" -> "p__"
      [] rank = "C" -> "c__"
      [] rank = "O" -> "o__"
      [] rank = "F" -> "f__"
      [] rank = "G" -> "g__"
      [] rank = "S" -> "s__"
      [] OTHER -> None

\* The display names of the rows. A name with a semicolon in it is tried at
\* the domain rank, whose label enters every lineage string.
PlainName == <<"x">>

Names == {PlainName, <<"x", ";", "y">>}

NamesOf(rank) == IF rank = "D" THEN Names ELSE {PlainName}

\* f"{pref}{name}"
Label(rank, name) == <<rank_prefix(rank)>> \o name

\* Ordered without the test for the species rank: all 8 ranks for every row.
Ordered_AlwaysSpecies(rank) == SubSeq(RankOrder, 1, 8)

\* The ranks joined for a genus or species row.
Ordered(rank) ==
    IF rank = "S" THEN SubSeq(RankOrder, 1, 8) ELSE SubSeq(RankOrder, 1, 7)

\* One row of the report with at least 6 fields: the ladder after the row.
LadderAfter(ladder, rank, name) ==
    IF rank_prefix(rank) # None THEN Put(ladder, rank, Label(rank, name))
    ELSE ladder

\* The lineage string of a genus or species row, from the updated ladder.
LineageStr(ladder, rank) ==
    Join(MapLabels(ladder,
                   SelectSeq(Ordered(rank), LAMBDA r : r \in DOMAIN ladder)),
         ";")

\* The map after the row.
MapAfter(map, ladder, rank, taxid) ==
    IF rank \in {"G", "S"} THEN Put(map, taxid, LineageStr(ladder, rank))
    ELSE map

\* A row of a known rank, listed top-down and depth-first: it hangs below the
\* first keep nodes of the path of the previous row, all of shallower rank
\* (ranks between parent and child may have no row); a root is a domain.
RankRow(rank, name, keep) ==
    /\ rowNo < MaxRows
    /\ keep = 0 => rank = "D"
    /\ \A i \in 1..keep : Depth(path[i].rank) < Depth(rank)
    /\ LET descends == keep = Len(path) /\ path # <<>>
           ladder   == LadderAfter(lineage_by_rank, rank, name)
           taxid    == ToString(rowNo + 1)
       IN  /\ branches' = IF descends THEN branches ELSE branches + 1
           /\ branches' <= MaxBranches
           /\ lineage_by_rank' = ladder
           /\ taxid_to_lineage' = MapAfter(taxid_to_lineage, ladder, rank, taxid)
           /\ rowNo' = rowNo + 1
           /\ path' = Append(SubSeq(path, 1, keep),
                             [rank |-> rank, label |-> Label(rank, name)])
           /\ lastRank' = rank
           /\ lastTaxid' = taxid
    /\ UNCHANGED <<aggVars, cacheVars, raceVars, loadVars>>

\* A row whose rank code the prefix table does not know.
OtherRow(rank, name) ==
    /\ lineage_by_rank' = LadderAfter(lineage_by_rank, rank, name)
    /\ taxid_to_lineage' =
           MapAfter(taxid_to_lineage, lineage_by_rank', rank, "0")
    /\ UNCHANGED <<rowNo, path, branches, lastRank, lastTaxid>>
    /\ UNCHANGED <<aggVars, cacheVars, raceVars, loadVars>>

\* A blank line or a row of fewer than 6 fields: skipped.
SkippedLine ==
    /\ UNCHANGED <<lineageVars, aggVars, cacheVars, raceVars, loadVars>>

\* The lineage builder before its first line.
LineageStart ==
    /\ lineage_by_rank = EmptyMap
    /\ rowNo = 0
    /\ path = <<>>
    /\ branches = 0
    /\ lastRank = None
    /\ lastTaxid = None

\* The aggregator before write_attrition_csv has built its accumulator.
AggregatorIdle ==
    /\ read_to_taxid = EmptyMap
    /\ counts = EmptyMap
    /\ counts_order = <<>>
    /\ gc_sum = EmptyMap
    /\ gc_n = EmptyMap
    /\ pc = "idle"
    /\ file_key = None
    /\ error = None
    /\ consumed = <<>>
    /\ acc0 = <<>>
    /\ nRecords = 0
    /\ min_reads = 0
    /\ rows = <<>>

\* No call of build_or_get_binned_reference yet.
NoCall == [bins |-> EmptyMap, ret |-> <<>>, wrote |-> FALSE,
           before |-> EmptyMap, error |-> "no call"]

\* The reference cache with an empty fragment directory, never called.
CacheIdle ==
    /\ bins = EmptyMap
    /\ cache = EmptyMap
    /\ clock = 0
    /\ lastCall = NoCall
    /\ prevCall = NoCall

\* No concurrent invocation of build_or_get_binned_reference.
RaceIdle == procs = <<>>

\* The classification stream is not being read.
LoadIdle == classified_only = FALSE /\ nLines = 0

InitLineage ==
    /\ LineageStart
    /\ taxid_to_lineage = EmptyMap
    /\ AggregatorIdle
    /\ CacheIdle
    /\ RaceIdle
    /\ LoadIdle

NextLineage ==
    \/ \E rank \in Ranks :
           \E name \in NamesOf(rank), keep \in 0..Len(path) :
               RankRow(rank, name, keep)
    \/ \E rank \in OtherRanks, name \in Names : OtherRow(rank, name)
    \/ SkippedLine

SpecLineage == InitLineage /\ [][NextLineage]_vars

\* -------------------------------------------------- claims on the lineages
\* The row read last is a genus or species row (its lineage was recorded).
LineageRow == lastRank \in {"G", "S"}

\* The segments of the lineage string recorded for the row read last.
LastSegments == Split(taxid_to_lineage[lastTaxid], ";")

\* The ranks from the domain down to the row's own rank.
RanksDownTo(rank) == SubSeq(RankOrder, 1, Depth(rank))

\* Those of them the ladder holds, top-down.
SeenRanks ==
    SelectSeq(RanksDownTo(lastRank), LAMBDA r : r \in DOMAIN lineage_by_rank)

\* No label the row joins has a semicolon in its name.
NoSemicolon ==
    \A i \in 1..Len(SeenRanks) :
        \A j \in 1..Len(lineage_by_rank[SeenRanks[i]]) :
            lineage_by_rank[SeenRanks[i]][j] # ";"

StartsWith(seg, pref) == seg # <<>> /\ seg[1] = pref

\* C2 as stated: every genus row of a report rooted at a domain gets exactly
\* 7 segments, every species row exactly 8, the i-th segment starting with
\* the i-th prefix of the table.
C2_AsStated ==
    LineageRow =>
        /\ Len(LastSegments) = Depth(lastRank)
        /\ \A i \in 1..Len(LastSegments) :
               StartsWith(LastSegments[i], rank_prefix(RankOrder[i]))

\* C2 amended: the lineage string of a genus (species) row joins the labels
\* of the ranks D..G (D..S) that had a row so far, in table order. With no
\* semicolon in the joined names it has one segment per such rank, each
\* starting with that rank's prefix: exactly 7 (8) segments with the i-th
\* prefix of the table when every rank had a row, fewer otherwise.
C2_SegmentsFollowLadder ==
    (LineageRow /\ NoSemicolon) =>
        /\ Len(LastSegments) = Len(SeenRanks)
        /\ Len(LastSegments) <= Depth(lastRank)
        /\ \A i \in 1..Len(LastSegments) :
               StartsWith(LastSegments[i], rank_prefix(SeenRanks[i]))
        /\ (Len(SeenRanks) = Depth(lastRank)) =>
               \A i \in 1..Len(LastSegments) :
                   StartsWith(LastSegments[i], rank_prefix(RankOrder[i]))
        /\ LastSegments[Len(LastSegments)] = path[Len(path)].label

\* A species row below a full chain of ancestors: 8 segments.
C2_Witness ==
    /\ lastRank = "S"
    /\ NoSemicolon
    /\ Len(path) = 8
    /\ Len(LastSegments) = 8

\* C10 as stated: when a genus or species row is read, every label the
\* ladder contributes to its lineage is the label of the row itself or of
\* one of its ancestors in the tree.
C10_LadderHoldsAncestors ==
    LineageRow =>
        \A i \in 1..Len(SeenRanks) :
            \E j \in 1..Len(path) :
                /\ path[j].rank = SeenRanks[i]
                /\ path[j].label = lineage_by_rank[SeenRanks[i]]

\* ------------------------------------------------------- stream aggregator
\* d.get(k, default), and the read of a defaultdict that has no key k.
Get(d, k, default) == IF k \in DOMAIN d THEN d[k] ELSE default

\* The whitespace str.strip() and str.split() know of.
IsSpace(c) == c \in {" ", "TAB", "LF", "CR"}

RECURSIVE LStrip(_)
LStrip(s) == IF s # <<>> /\ IsSpace(Head(s)) THEN LStrip(Tail(s)) ELSE s

RECURSIVE RStrip(_)
RStrip(s) ==
    IF s # <<>> /\ IsSpace(s[Len(s)]) THEN RStrip(SubSeq(s, 1, Len(s) - 1))
    ELSE s

\* s.strip()
Strip(s) == RStrip(LStrip(s))

\* The characters of s before its first whitespace.
RECURSIVE UpToSpace(_)
UpToSpace(s) ==
    IF s = <<>> \/ IsSpace(Head(s)) THEN <<>>
    ELSE <<Head(s)>> \o UpToSpace(Tail(s))

\* What is left of a header once stripped and freed of a leading "@".
HeaderBody(s) ==
    LET t == Strip(s)
    IN  IF t # <<>> /\ Head(t) = "@" THEN Tail(t) ELSE t

\* s.split()[0] fails with IndexError when s.split() is empty.
NormalizeRaises(s) == LStrip(HeaderBody(s)) = <<>>

normalize_read_id(s) == UpToSpace(LStrip(HeaderBody(s)))

\* An exact fraction num/den, den > 0.
Frac(n, d) == [num |-> n, den |-> d]

FracAdd(a, b) == Frac(a.num * b.den + b.num * a.den, a.den * b.den)

FracEq(a, b) == a.num * b.den = b.num * a.den

\* c.upper()
Upper(c) ==
    CASE c = "a" -> "A"
      [] c = "c" -> "C"
      [] c = "g" -> "G"
      [] c = "t" -> "T"
      [] OTHER -> c

\* s.count("G") + s.count("C") after upper()
RECURSIVE CountGC(_)
CountGC(s) ==
    IF s = <<>> THEN 0
    ELSE (IF Upper(Head(s)) \in {"G", "C"} THEN 1 ELSE 0) + CountGC(Tail(s))

gc_fraction(seq) ==
    LET t == Strip(seq)
    IN  IF t = <<>> THEN Frac(0, 1) ELSE Frac(CountGC(t), Len(t))

\* The value of a key the defaultdict counts creates.
NewCounts == [total |-> 0, mapped |-> 0, unmapped |-> 0]

\* The accumulator write_attrition_csv builds: three empty tables.
NewAcc ==
    [counts |-> EmptyMap, order |-> <<>>, gc_sum |-> EmptyMap,
     gc_n |-> EmptyMap]

\* The lineage a record joins to; empty when either lookup misses.
LineageOf(rec, r2t, t2l) ==
    LET read_id == normalize_read_id(rec.h)
        taxid   == Get(r2t, read_id, None)
    IN  Get(t2l, taxid, <<>>)

\* The four updates of a record that joins to a lineage.
Accumulate(acc, lineage, seq, key) ==
    LET c0 == Get(acc.counts, lineage, NewCounts)
        c1 == [c0 EXCEPT !.total = @ + 1]
        c2 == [c1 EXCEPT ![key] = @ + 1]
    IN  [counts |-> Put(acc.counts, lineage, c2),
         order  |-> IF lineage \in DOMAIN acc.counts THEN acc.order
                    ELSE Append(acc.order, lineage),
         gc_sum |-> Put(acc.gc_sum, lineage,
                        FracAdd(Get(acc.gc_sum, lineage, Frac(0, 1)),
                                gc_fraction(seq))),
         gc_n   |-> Put(acc.gc_n, lineage, Get(acc.gc_n, lineage, 0) + 1)]

\* Mutants of ProcessRecord.
\* The partition counter is not incremented.
ProcessRecord_NoPartition(rec, r2t, t2l, key, acc) ==
    LET lineage == LineageOf(rec, r2t, t2l)
        a       == Accumulate(acc, lineage, rec.seq, key)
    IN  IF lineage = <<>> THEN acc
        ELSE [a EXCEPT !.counts[lineage][key] = @ - 1]

\* The counters of the lineage are looked up before the test for a miss.
ProcessRecord_KeyOnMiss(rec, r2t, t2l, key, acc) ==
    LET lineage == LineageOf(rec, r2t, t2l)
    IN  IF lineage = <<>>
        THEN [acc EXCEPT !.counts = Put(acc.counts, lineage, NewCounts),
                         !.order = IF lineage \in DOMAIN acc.counts
                                   THEN acc.order
                                   ELSE Append(acc.order, lineage)]
        ELSE Accumulate(acc, lineage, rec.seq, key)

\* The GC sum is assigned, not added to.
ProcessRecord_GcAssigned(rec, r2t, t2l, key, acc) ==
    LET lineage == LineageOf(rec, r2t, t2l)
        a       == Accumulate(acc, lineage, rec.seq, key)
    IN  IF lineage = <<>> THEN acc
        ELSE [a EXCEPT !.gc_sum[lineage] = gc_fraction(rec.seq)]

\* The total is incremented only in the mapped pass.
ProcessRecord_TotalOfMapped(rec, r2t, t2l, key, acc) ==
    LET lineage == LineageOf(rec, r2t, t2l)
        a       == Accumulate(acc, lineage, rec.seq, key)
    IN  IF lineage = <<>> THEN acc
        ELSE IF key = "mapped" THEN a
        ELSE [a EXCEPT !.counts[lineage].total = @ - 1]

\* A record whose sequence line is empty is no GC sample.
ProcessRecord_NoSampleOfEmpty(rec, r2t, t2l, key, acc) ==
    LET lineage == LineageOf(rec, r2t, t2l)
        a       == Accumulate(acc, lineage, rec.seq, key)
    IN  IF lineage = <<>> THEN acc
        ELSE IF Strip(rec.seq) # <<>> THEN a
        ELSE [a EXCEPT !.gc_n[lineage] = @ - 1]

\* The body of the loop of process_fastq for one complete record whose
\* header normalizes: the accumulator after the record.
ProcessRecord(rec, r2t, t2l, key, acc) ==
    LET lineage == LineageOf(rec, r2t, t2l)
    IN  IF lineage = <<>> THEN acc
        ELSE Accumulate(acc, lineage, rec.seq, key)

\* process_fastq over the complete records of a file: the accumulator when
\* the loop ends, by end of input or by the IndexError of a header.
RECURSIVE process_fastq(_, _, _, _, _)
process_fastq(recs, r2t, t2l, key, acc) ==
    IF recs = <<>> THEN acc
    ELSE IF NormalizeRaises(Head(recs).h) THEN acc
    ELSE process_fastq(Tail(recs), r2t, t2l, key,
                       ProcessRecord(Head(recs), r2t, t2l, key, acc))

\* Header lines: "@a 1" (read a), "b", "c" and "@", which has no read id.
Headers == {<<"@", "a", " ", "1">>, <<"b">>, <<"c">>, <<"@">>}

\* Sequence lines, of GC fraction 1, 1/3 and 0 (empty).
Seqs == {<<"g", "C">>, <<"A", "T", "c">>, <<>>}

Records == [h : Headers, seq : Seqs]

LinA == <<"d__", "x", ";", "g__", "x">>
LinB == <<"d__", "x", ";", "g__", "x", ";", "s__", "x">>
LinC == <<"d__", "x", ";", "p__", "x", ";", "g__", "x">>

\* Classification indexes: every read classified, or read c left out and
\* reads a and b of one taxon.
ReadMaps ==
    {(<<"a">> :> "t1") @@ (<<"b">> :> "t2") @@ (<<"c">> :> "t3"),
     (<<"a">> :> "t1") @@ (<<"b">> :> "t1")}

\* Lineage maps: every taxon with a lineage, or taxon t3 without one.
LineageMaps ==
    {("t1" :> LinA) @@ ("t2" :> LinB) @@ ("t3" :> LinC),
     ("t1" :> LinA) @@ ("t2" :> LinB)}

\* The minimum-count thresholds tried.
Thresholds == -1..2

\* The accumulator of the current state.
Acc ==
    [counts |-> counts, order |-> counts_order, gc_sum |-> gc_sum,
     gc_n |-> gc_n]

SetAcc(a) ==
    /\ counts' = a.counts
    /\ counts_order' = a.order
    /\ gc_sum' = a.gc_sum
    /\ gc_n' = a.gc_n

\* One complete record is read and processed.
ReadRecord(rec) ==
    /\ pc = "process_fastq"
    /\ nRecords < MaxRecords
    /\ ~NormalizeRaises(rec.h)
    /\ SetAcc(ProcessRecord(rec, read_to_taxid, taxid_to_lineage, file_key, Acc))
    /\ consumed' = Append(consumed, rec)
    /\ nRecords' = nRecords + 1
    /\ UNCHANGED <<read_to_taxid, pc, file_key, error, acc0, min_reads, rows>>
    /\ UNCHANGED <<lineageVars, cacheVars, raceVars, loadVars>>

\* A complete record whose header has no read id: normalize_read_id raises.
ReadRecordRaises(rec) ==
    /\ pc = "process_fastq"
    /\ nRecords < MaxRecords
    /\ NormalizeRaises(rec.h)
    /\ pc' = "raised"
    /\ error' = "IndexError"
    /\ consumed' = Append(consumed, rec)
    /\ nRecords' = nRecords + 1
    /\ UNCHANGED <<read_to_taxid, counts, counts_order, gc_sum, gc_n,
                   file_key, acc0, min_reads, rows>>
    /\ UNCHANGED <<lineageVars, cacheVars, raceVars, loadVars>>

\* process_fastq returns: the unmapped pass follows the mapped one, the
\* writer the unmapped one.
PassEnds ==
    /\ IF file_key = "mapped"
       THEN /\ file_key' = "unmapped"
            /\ consumed' = <<>>
            /\ acc0' = Acc
            /\ pc' = pc
       ELSE /\ pc' = "write"
            /\ UNCHANGED <<file_key, consumed, acc0>>
    /\ UNCHANGED <<read_to_taxid, counts, counts_order, gc_sum, gc_n, error,
                   nRecords, min_reads, rows>>
    /\ UNCHANGED <<lineageVars, cacheVars, raceVars, loadVars>>

\* The header line is empty: end of the file.
EndOfFile ==
    /\ pc = "process_fastq"
    /\ PassEnds

\* The quality line is empty: the file ends inside a record, whose header
\* is not looked at.
TruncatedRecord ==
    /\ pc = "process_fastq"
    /\ PassEnds

\* Insertion after the keys whose total is not smaller, before the others
\* of a smaller total: ties are reversed.
RECURSIVE InsertByTotal_TiesReversed(_, _, _)
InsertByTotal_TiesReversed(sorted, k, cnt) ==
    IF sorted = <<>> THEN <<k>>
    ELSE IF cnt[Head(sorted)].total > cnt[k].total
    THEN <<Head(sorted)>> \o InsertByTotal_TiesReversed(Tail(sorted), k, cnt)
    ELSE <<k>> \o sorted

\* A key goes behind the keys whose total is not smaller.
RECURSIVE InsertByTotal(_, _, _)
InsertByTotal(sorted, k, cnt) ==
    IF sorted = <<>> THEN <<k>>
    ELSE IF cnt[Head(sorted)].total >= cnt[k].total
    THEN <<Head(sorted)>> \o InsertByTotal(Tail(sorted), k, cnt)
    ELSE <<k>> \o sorted

\* sorted(counts.items(), key=total, reverse=True): stable, so keys of equal
\* total keep the order of the dict.
RECURSIVE SortedByTotal(_, _, _)
SortedByTotal(sorted, rest, cnt) ==
    IF rest = <<>> THEN sorted
    ELSE SortedByTotal(InsertByTotal(sorted, Head(rest), cnt), Tail(rest), cnt)

\* The lineages past the threshold, in the order they are written.
KeptLineages(m) ==
    SelectSeq(SortedByTotal(<<>>, counts_order, counts),
              LAMBDA k : ~(counts[k].total < m))

\* One data row.
Row(k) ==
    LET c == counts[k]
        n == Get(gc_n, k, 0)
        g == Get(gc_sum, k, Frac(0, 1))
    IN  [lineage  |-> k,
         total    |-> c.total,
         mapped   |-> Frac(c.mapped, c.total),
         unmapped |-> Frac(c.unmapped, c.total),
         avg_gc   |-> IF n # 0 THEN Frac(g.num, g.den * n) ELSE Frac(0, 1)]

\* The rows before the first kept lineage whose total is 0.
RECURSIVE RowsUntilZero(_)
RowsUntilZero(ks) ==
    IF ks = <<>> \/ counts[Head(ks)].total = 0 THEN <<>>
    ELSE <<Row(Head(ks))>> \o RowsUntilZero(Tail(ks))

\* The writer: every kept lineage gets its row, unless a division by a
\* total of 0 raises first.
WriteRows(m) ==
    /\ pc = "write"
    /\ min_reads' = m
    /\ rows' = RowsUntilZero(KeptLineages(m))
    /\ IF \E i \in 1..Len(KeptLineages(m)) : counts[KeptLineages(m)[i]].total = 0
       THEN pc' = "raised" /\ error' = "ZeroDivisionError"
       ELSE pc' = "done" /\ error' = error
    /\ UNCHANGED <<read_to_taxid, counts, counts_order, gc_sum, gc_n,
                   file_key, consumed, acc0, nRecords>>
    /\ UNCHANGED <<lineageVars, cacheVars, raceVars, loadVars>>

InitAggregate ==
    /\ LineageStart
    /\ taxid_to_lineage \in LineageMaps
    /\ read_to_taxid \in ReadMaps
    /\ counts = EmptyMap
    /\ counts_order = <<>>
    /\ gc_sum = EmptyMap
    /\ gc_n = EmptyMap
    /\ pc = "process_fastq"
    /\ file_key = "mapped"
    /\ error = None
    /\ consumed = <<>>
    /\ acc0 = NewAcc
    /\ nRecords = 0
    /\ min_reads = 0
    /\ rows = <<>>
    /\ CacheIdle
    /\ RaceIdle
    /\ LoadIdle

NextAggregate ==
    \/ \E rec \in Records : ReadRecord(rec)
    \/ \E rec \in Records : ReadRecordRaises(rec)
    \/ EndOfFile
    \/ TruncatedRecord
    \/ \E m \in Thresholds : WriteRows(m)

SpecAggregate == InitAggregate /\ [][NextAggregate]_vars

\* ----------------------------------------------- claims on the aggregator
\* C1: for every lineage key of the accumulator, total = mapped + unmapped
\* and the three counters are non-negative, after every record of every
\* pass.
C1_TotalIsMappedPlusUnmapped ==
    \A k \in DOMAIN counts :
        /\ counts[k].total = counts[k].mapped + counts[k].unmapped
        /\ counts[k].total \in Nat
        /\ counts[k].mapped \in Nat
        /\ counts[k].unmapped \in Nat

\* Both passes are over and one lineage has reads of both partitions.
C1_Witness ==
    /\ pc = "write"
    /\ \E k \in DOMAIN counts : counts[k].mapped > 0 /\ counts[k].unmapped > 0

\* The read id of the record is not in the classification index, or its
\* taxon id is not in the lineage map.
JoinMisses(rec) ==
    \/ normalize_read_id(rec.h) \notin DOMAIN read_to_taxid
    \/ read_to_taxid[normalize_read_id(rec.h)] \notin DOMAIN taxid_to_lineage

\* C3: a step that reads a record whose read id or taxon id misses changes
\* no counter, no GC sum, no GC sample count and no key set, and leaves
\* process_fastq reading.
C3_MissChangesNothing ==
    [][(/\ pc = "process_fastq"
        /\ Len(consumed') = Len(consumed) + 1
        /\ ~NormalizeRaises(consumed'[Len(consumed')].h)
        /\ \/ normalize_read_id(consumed'[Len(consumed')].h)
                  \notin DOMAIN read_to_taxid
           \/ read_to_taxid[normalize_read_id(consumed'[Len(consumed')].h)]
                  \notin DOMAIN taxid_to_lineage)
       => (/\ counts' = counts
           /\ counts_order' = counts_order
           /\ gc_sum' = gc_sum
           /\ gc_n' = gc_n
           /\ pc' = "process_fastq"
           /\ error' = None)]_vars

\* A record that misses was read into an accumulator that has lineages, and
\* a record was read after it.
C3_Witness ==
    /\ Len(consumed) >= 2
    /\ ~NormalizeRaises(consumed[Len(consumed) - 1].h)
    /\ JoinMisses(consumed[Len(consumed) - 1])
    /\ counts # EmptyMap
    /\ pc = "process_fastq"

\* The functions of 1..n onto itself.
Perms(n) == {p \in [1..n -> 1..n] : \A i, j \in 1..n : p[i] = p[j] => i = j}

Permuted(recs, p) == [i \in 1..Len(recs) |-> recs[p[i]]]

\* Two accumulators with the same counters, the same GC sample counts and
\* the same GC sums as exact fractions, for the same lineages.
SameTables(a, b) ==
    /\ a.counts = b.counts
    /\ a.gc_n = b.gc_n
    /\ DOMAIN a.gc_sum = DOMAIN b.gc_sum
    /\ \A k \in DOMAIN a.gc_sum : FracEq(a.gc_sum[k], b.gc_sum[k])

\* C4: process_fastq over any permutation of the records of the file,
\* started from the accumulator the pass started from, ends with the tables
\* the pass ended with (every prefix of a file is a file, so the pass may
\* end in any state that reads).
C4_OrderIndependent ==
    pc \in {"process_fastq", "write"} =>
        \A p \in Perms(Len(consumed)) :
            SameTables(process_fastq(Permuted(consumed, p), read_to_taxid,
                                     taxid_to_lineage, file_key, acc0),
                       Acc)

\* The unmapped pass read two records of one lineage with different GC
\* fractions into an accumulator the mapped pass had filled.
C4_Witness ==
    /\ pc = "write"
    /\ acc0.counts # EmptyMap
    /\ Len(consumed) >= 2
    /\ \E k \in DOMAIN counts :
           /\ LineageOf(consumed[1], read_to_taxid, taxid_to_lineage) = k
           /\ LineageOf(consumed[2], read_to_taxid, taxid_to_lineage) = k
           /\ ~FracEq(gc_fraction(consumed[1].seq), gc_fraction(consumed[2].seq))

\* Position of a key in the insertion order of counts.
PosInOrder(k) == CHOOSE i \in 1..Len(counts_order) : counts_order[i] = k

\* C5: the rows are the lineages whose total is at least min_reads, each
\* once, with their totals, in non-increasing order of total, lineages of
\* equal total in the order of their first insertion.
C5_RowsFilteredAndSorted ==
    pc = "done" =>
        /\ {rows[i].lineage : i \in 1..Len(rows)}
               = {k \in DOMAIN counts : counts[k].total >= min_reads}
        /\ \A i, j \in 1..Len(rows) :
               rows[i].lineage = rows[j].lineage => i = j
        /\ \A i \in 1..Len(rows) : rows[i].total = counts[rows[i].lineage].total
        /\ \A i, j \in 1..Len(rows) :
               i < j =>
                   /\ rows[i].total >= rows[j].total
                   /\ rows[i].total = rows[j].total =>
                          PosInOrder(rows[i].lineage) < PosInOrder(rows[j].lineage)

\* A lineage of total 2 is written before one of total 1 that was inserted
\* first, the threshold at 1.
C5_Witness ==
    /\ pc = "done"
    /\ min_reads = 1
    /\ Len(rows) = 2
    /\ rows[1].total > rows[2].total
    /\ PosInOrder(rows[1].lineage) = 2

\* C6: no key of the accumulator has a total of 0 and the writer never
\* ends in a division by zero, whatever the threshold.
C6_NoDivisionByZero ==
    /\ \A k \in DOMAIN counts : counts[k].total # 0
    /\ error # "ZeroDivisionError"
    /\ pc = "done" => \A i \in 1..Len(rows) :
           rows[i].mapped.den # 0 /\ rows[i].unmapped.den # 0
                                  /\ rows[i].avg_gc.den # 0

\* Rows were written with a threshold below 1.
C6_Witness ==
    /\ pc = "done"
    /\ min_reads <= 0
    /\ rows # <<>>

\* ----------------------------------------------------------- reference cache
\* The entries a fragment directory may hold, sorted by name: two fragment
\* files, a subdirectory whose name matches the pattern of the fragments,
\* and a file that is no fragment.
NameOrder ==
    <<(<<"a", ".fa">>), (<<"b", ".fa", "s", "t", "a">>), (<<"d", ".fa">>),
      (<<"n", ".", "t", "x", "t">>)>>

EntryNames == {NameOrder[i] : i \in 1..Len(NameOrder)}

DirNames == {<<"d", ".fa">>}

\* File contents, as bytes; CR and LF are the two line-end bytes.
ContentsOf(name) ==
    IF name = <<"n", ".", "t", "x", "t">> THEN {<<"z">>}
    ELSE {<<"x", "LF">>, <<"y", "CR", "LF">>}

\* The entries a name may stand for, last modified at time t.
EntriesOf(name, t) ==
    IF name \in DirNames
    THEN {[kind |-> "dir", content |-> <<>>, mtime |-> t]}
    ELSE {[kind |-> "file", content |-> c, mtime |-> t] : c \in ContentsOf(name)}

\* sorted(...) of a set of names of the directory.
SortedNames(names) == SelectSeq(NameOrder, LAMBDA n : n \in names)

\* bins_dir.glob("*.fa*"): the names with ".fa" in them, files or not.
Matches(name) == \E i \in 1..Len(name) : name[i] = ".fa"

\* int(st.st_mtime): whole seconds of a time in half seconds.
IntSeconds(t) == t \div 2

\* str(n) of a natural number, digit by digit.
RECURSIVE Digits(_)
Digits(n) ==
    LET d == <<"0", "1", "2", "3", "4", "5", "6", "7", "8", "9">>[(n % 10) + 1]
    IN  IF n < 10 THEN <<d>> ELSE Digits(n \div 10) \o <<d>>

\* What the digest is fed for the regular files of a sorted list of names.
RECURSIVE DigestFeed(_, _)
DigestFeed(dir, names) ==
    IF names = <<>> THEN <<>>
    ELSE LET e == dir[Head(names)]
         IN  (IF e.kind = "file"
              THEN Head(names) \o Digits(Len(e.content))
                               \o Digits(IntSeconds(e.mtime))
              ELSE <<>>)
             \o DigestFeed(dir, Tail(names))

\* The feed without the modification times.
bins_cache_key_NoMtime(dir) ==
    LET RECURSIVE Feed(_)
        Feed(names) ==
            IF names = <<>> THEN <<>>
            ELSE (IF dir[Head(names)].kind = "file"
                  THEN Head(names) \o Digits(Len(dir[Head(names)].content))
                  ELSE <<>>)
                 \o Feed(Tail(names))
    IN  Feed(SortedNames(DOMAIN dir))

\* The cache key. The first 16 hex digits of SHA-256 are taken to be free of
\* collisions: two keys are equal exactly when the digest was fed the same
\* bytes.
bins_cache_key(dir) == DigestFeed(dir, SortedNames(DOMAIN dir))

\* cache_dir / f"binned_{key}.fasta"
RefPath(key) == <<"binned_">> \o key \o <<".fasta">>

\* A file read in text mode: CR LF and a lone CR become LF.
RECURSIVE TextRead(_)
TextRead(bytes) ==
    IF bytes = <<>> THEN <<>>
    ELSE IF Head(bytes) = "CR"
    THEN IF Len(bytes) >= 2 /\ bytes[2] = "LF"
         THEN <<"LF">> \o TextRead(SubSeq(bytes, 3, Len(bytes)))
         ELSE <<"LF">> \o TextRead(Tail(bytes))
    ELSE <<Head(bytes)>> \o TextRead(Tail(bytes))

\* The copy loop: what is written until the list ends or open() meets a
\* directory.
RECURSIVE Copied(_, _)
Copied(dir, names) ==
    IF names = <<>> \/ dir[Head(names)].kind = "dir" THEN <<>>
    ELSE TextRead(dir[Head(names)].content) \o Copied(dir, Tail(names))

\* The names the build opens.
BuildNames(dir) == SortedNames({n \in DOMAIN dir : Matches(n)})

\* The artifact is written again on every call.
build_or_get_binned_reference_AlwaysBuilds(dir, c, now) ==
    LET ref    == RefPath(bins_cache_key(dir))
        names  == BuildNames(dir)
        raises == \E i \in 1..Len(names) : dir[names[i]].kind = "dir"
    IN  [cache |-> Put(c, ref, [content |-> Copied(dir, names), mtime |-> now]),
         ret   |-> IF raises THEN <<>> ELSE ref,
         wrote |-> TRUE,
         error |-> IF raises THEN "IsADirectoryError" ELSE None]

\* One call, at time now, with the cache directory c: the cache directory
\* after it, the path returned (none when open() raised), whether the
\* artifact was opened for writing.
build_or_get_binned_reference(dir, c, now) ==
    LET ref    == RefPath(bins_cache_key(dir))
        names  == BuildNames(dir)
        raises == \E i \in 1..Len(names) : dir[names[i]].kind = "dir"
    IN  IF ref \in DOMAIN c
        THEN [cache |-> c, ret |-> ref, wrote |-> FALSE, error |-> None]
        ELSE [cache |-> Put(c, ref, [content |-> Copied(dir, names),
                                     mtime |-> now]),
              ret   |-> IF raises THEN <<>> ELSE ref,
              wrote |-> TRUE,
              error |-> IF raises THEN "IsADirectoryError" ELSE None]

\* The fragment directories a run may start with, every entry of time 0.
InitialDirs ==
    {d \in UNION {[S -> UNION {EntriesOf(n, 0) : n \in EntryNames}] :
                      S \in SUBSET EntryNames} :
        \A n \in DOMAIN d : d[n] \in EntriesOf(n, 0)}

\* A pipeline run asks for the reference of the fragment directory.
Call ==
    /\ clock < MaxClock
    /\ LET r == build_or_get_binned_reference(bins, cache, clock + 1)
       IN  /\ cache' = r.cache
           /\ lastCall' = [bins |-> bins, ret |-> r.ret, wrote |-> r.wrote,
                           before |-> cache, error |-> r.error]
    /\ prevCall' = lastCall
    /\ clock' = clock + 1
    /\ UNCHANGED bins
    /\ UNCHANGED <<lineageVars, aggVars, raceVars, loadVars>>

\* Someone touches an entry of the fragment directory.
Touch(name) ==
    /\ clock < MaxClock
    /\ name \in DOMAIN bins
    /\ bins' = [bins EXCEPT ![name].mtime = clock + 1]
    /\ clock' = clock + 1
    /\ UNCHANGED <<cache, lastCall, prevCall>>
    /\ UNCHANGED <<lineageVars, aggVars, raceVars, loadVars>>

\* Someone writes a file of the fragment directory, new or not.
WriteFragment(name, content) ==
    /\ clock < MaxClock
    /\ name \notin DirNames
    /\ bins' = Put(bins, name,
                   [kind |-> "file", content |-> content, mtime |-> clock + 1])
    /\ clock' = clock + 1
    /\ UNCHANGED <<cache, lastCall, prevCall>>
    /\ UNCHANGED <<lineageVars, aggVars, raceVars, loadVars>>

InitCache ==
    /\ LineageStart
    /\ taxid_to_lineage = EmptyMap
    /\ AggregatorIdle
    /\ bins \in InitialDirs
    /\ cache = EmptyMap
    /\ clock = 0
    /\ lastCall = NoCall
    /\ prevCall = NoCall
    /\ RaceIdle
    /\ LoadIdle

NextCache ==
    \/ Call
    \/ \E name \in EntryNames : Touch(name)
    \/ \E name \in EntryNames : \E content \in ContentsOf(name) :
           WriteFragment(name, content)

SpecCache == InitCache /\ [][NextCache]_vars

\* ---------------------------------------------------- claims on the cache
\* Both calls happened.
TwoCalls == prevCall # NoCall /\ lastCall # NoCall

\* C7: when the fragment directory of a call is the one of the call before,
\* the call opens no artifact for writing and leaves every artifact, its
\* content and its modification time, as it was, and returns the path the
\* call before returned.
C7_SecondCallReuses ==
    (TwoCalls /\ lastCall.bins = prevCall.bins) =>
        /\ ~lastCall.wrote
        /\ cache = lastCall.before
        /\ lastCall.error = None
        /\ prevCall.error = None => lastCall.ret = prevCall.ret

\* Two calls on one directory, the first of which built the artifact.
C7_Witness ==
    /\ TwoCalls
    /\ lastCall.bins = prevCall.bins
    /\ prevCall.wrote
    /\ prevCall.error = None
    /\ lastCall.ret = prevCall.ret
    /\ cache[lastCall.ret].mtime < clock

\* The step changes the modification time of the regular file name and
\* nothing else of the directory.
MtimeChanges(name) ==
    /\ name \in DOMAIN bins
    /\ bins[name].kind = "file"
    /\ bins'[name].mtime # bins[name].mtime
    /\ bins' = [bins EXCEPT ![name].mtime = bins'[name].mtime]

\* C8 as stated: every change of the modification time of one regular file
\* changes the key.
C8_AsStated ==
    [][\A name \in EntryNames :
           MtimeChanges(name) => bins_cache_key(bins') # bins_cache_key(bins)]_vars

\* C8 amended: a change of the modification time of one regular file to
\* another whole second changes the key, and with it the path returned; a
\* change within the second leaves both as they were.
C8_WholeSecondChangesKey ==
    [][\A name \in EntryNames :
           MtimeChanges(name) =>
               /\ (IntSeconds(bins'[name].mtime) # IntSeconds(bins[name].mtime))
                      => /\ bins_cache_key(bins') # bins_cache_key(bins)
                         /\ RefPath(bins_cache_key(bins'))
                                # RefPath(bins_cache_key(bins))
               /\ (IntSeconds(bins'[name].mtime) = IntSeconds(bins[name].mtime))
                      => bins_cache_key(bins') = bins_cache_key(bins)]_vars

\* The directories of two calls differ in the whole second of one regular
\* file's modification time, and in nothing else but times.
C8_Witness ==
    /\ TwoCalls
    /\ prevCall.error = None
    /\ lastCall.error = None
    /\ DOMAIN lastCall.bins = DOMAIN prevCall.bins
    /\ \E name \in DOMAIN lastCall.bins :
           /\ lastCall.bins[name].kind = "file"
           /\ IntSeconds(lastCall.bins[name].mtime)
                  # IntSeconds(prevCall.bins[name].mtime)
           /\ lastCall.bins
                  = [prevCall.bins EXCEPT ![name].mtime = lastCall.bins[name].mtime]
    /\ lastCall.ret # prevCall.ret

\* The bytes of the regular files of a sorted list of names, one after the
\* other.
RECURSIVE ByteConcat(_, _)
ByteConcat(dir, names) ==
    IF names = <<>> THEN <<>>
    ELSE (IF dir[Head(names)].kind = "file" THEN dir[Head(names)].content
          ELSE <<>>)
         \o ByteConcat(dir, Tail(names))

\* C9 as stated: an artifact that a call built holds the bytes of the
\* regular files of the directory, the ones the key was computed from, in
\* name order.
C9_ArtifactIsConcatenation ==
    (lastCall.wrote /\ lastCall.error = None) =>
        cache[lastCall.ret].content
            = ByteConcat(lastCall.bins, SortedNames(DOMAIN lastCall.bins))

\* ------------------------------------- concurrent builds of one reference
\* The invocations that run at the same time, on one fragment directory and
\* one cache directory.
Procs == 1..MaxProcs

\* An invocation that has not started: where it stands, its artifact path,
\* the names it has still to copy, the position of its file object, whether
\* it opened the artifact for writing, and for an invocation that returned,
\* the content of the artifact at that moment and the invocations that were
\* writing it then.
NewFrame == [pc |-> "start", ref |-> <<>>, left |-> <<>>, off |-> 0,
             wrote |-> FALSE, handed |-> <<>>, busy |-> {}]

\* The file object appends whatever the file holds.
WriteAt_Appends(content, off, data) == content \o data

\* out.write(data) of a file object opened with "w" that stands at off: the
\* bytes land at its own position; a file that another open() cut short is
\* filled up to there with zero bytes.
WriteAt(content, off, data) ==
    LET end == IF off + Len(data) > Len(content) THEN off + Len(data)
               ELSE Len(content)
    IN  [i \in 1..end |->
            IF i > off /\ i <= off + Len(data) THEN data[i - off]
            ELSE IF i <= Len(content) THEN content[i]
            ELSE "NUL"]

\* The invocations other than p that have the artifact open for writing.
Writing(p, ref) ==
    {q \in Procs \ {p} : procs[q].pc = "copy" /\ procs[q].ref = ref}

\* cache_dir.mkdir, the key and the artifact path.
ComputeKey(p) ==
    /\ procs[p].pc = "start"
    /\ procs' = [procs EXCEPT ![p].pc = "exists",
                              ![p].ref = RefPath(bins_cache_key(bins))]
    /\ UNCHANGED cacheVars
    /\ UNCHANGED <<lineageVars, aggVars, loadVars>>

\* if ref.exists(): return ref
ExistsReturns(p) ==
    /\ procs[p].pc = "exists"
    /\ procs[p].ref \in DOMAIN cache
    /\ procs' = [procs EXCEPT ![p].pc = "done",
                              ![p].handed = cache[procs[p].ref].content,
                              ![p].busy = Writing(p, procs[p].ref)]
    /\ UNCHANGED cacheVars
    /\ UNCHANGED <<lineageVars, aggVars, loadVars>>

\* The path does not exist: the invocation goes on to build.
ExistsFails(p) ==
    /\ procs[p].pc = "exists"
    /\ procs[p].ref \notin DOMAIN cache
    /\ procs' = [procs EXCEPT ![p].pc = "open"]
    /\ UNCHANGED cacheVars
    /\ UNCHANGED <<lineageVars, aggVars, loadVars>>

\* open(ref, "w"): the file is created, or cut to nothing when it is there.
OpenArtifact(p) ==
    /\ procs[p].pc = "open"
    /\ cache' = Put(cache, procs[p].ref, [content |-> <<>>, mtime |-> clock])
    /\ procs' = [procs EXCEPT ![p].pc = "copy",
                              ![p].left = BuildNames(bins),
                              ![p].off = 0,
                              ![p].wrote = TRUE]
    /\ UNCHANGED <<bins, clock, lastCall, prevCall>>
    /\ UNCHANGED <<lineageVars, aggVars, loadVars>>

\* One turn of the copy loop: the next fragment reaches the artifact.
CopyFragment(p) ==
    /\ procs[p].pc = "copy"
    /\ procs[p].left # <<>>
    /\ bins[Head(procs[p].left)].kind = "file"
    /\ LET data == TextRead(bins[Head(procs[p].left)].content)
           ref  == procs[p].ref
       IN  /\ cache' = [cache EXCEPT ![ref].content =
                            WriteAt(cache[ref].content, procs[p].off, data)]
           /\ procs' = [procs EXCEPT ![p].left = Tail(procs[p].left),
                                     ![p].off = procs[p].off + Len(data)]
    /\ UNCHANGED <<bins, clock, lastCall, prevCall>>
    /\ UNCHANGED <<lineageVars, aggVars, loadVars>>

\* open(bf) meets a directory: the invocation ends with the exception, the
\* artifact stays as it is.
CopyRaises(p) ==
    /\ procs[p].pc = "copy"
    /\ procs[p].left # <<>>
    /\ bins[Head(procs[p].left)].kind = "dir"
    /\ procs' = [procs EXCEPT ![p].pc = "raised"]
    /\ UNCHANGED cacheVars
    /\ UNCHANGED <<lineageVars, aggVars, loadVars>>

\* The loop is over: the file is closed and the path returned.
CloseReturns(p) ==
    /\ procs[p].pc = "copy"
    /\ procs[p].left = <<>>
    /\ procs' = [procs EXCEPT ![p].pc = "done",
                              ![p].handed = cache[procs[p].ref].content,
                              ![p].busy = Writing(p, procs[p].ref)]
    /\ UNCHANGED cacheVars
    /\ UNCHANGED <<lineageVars, aggVars, loadVars>>

InitRace ==
    /\ LineageStart
    /\ taxid_to_lineage = EmptyMap
    /\ AggregatorIdle
    /\ bins \in InitialDirs
    /\ cache = EmptyMap
    /\ clock = 0
    /\ lastCall = NoCall
    /\ prevCall = NoCall
    /\ procs = [p \in Procs |-> NewFrame]
    /\ LoadIdle

NextRace ==
    \/ \E p \in Procs : ComputeKey(p)
    \/ \E p \in Procs : ExistsReturns(p)
    \/ \E p \in Procs : ExistsFails(p)
    \/ \E p \in Procs : OpenArtifact(p)
    \/ \E p \in Procs : CopyFragment(p)
    \/ \E p \in Procs : CopyRaises(p)
    \/ \E p \in Procs : CloseReturns(p)

SpecRace == InitRace /\ [][NextRace]_vars

\* ------------------------------------------- claims on concurrent builds
\* What one invocation alone leaves in the artifact.
WholeArtifact == Copied(bins, BuildNames(bins))

\* The invocation was handed an artifact that was not whole.
HandedTorn(p) == procs[p].pc = "done" /\ procs[p].handed # WholeArtifact

\* C11: the build-or-reuse sequence is not atomic. An invocation is handed
\* an artifact that is not whole only while another invocation has the same
\* path open for writing; the witness is the interleaving of the claim.
C11_TornOnlyDuringAnotherBuild ==
    \A p \in DOMAIN procs : HandedTorn(p) => procs[p].busy # {}

\* An invocation found the path existing and returned it, incomplete, while
\* another one was still writing it.
C11_Witness ==
    \E p \in DOMAIN procs :
        /\ HandedTorn(p)
        /\ ~procs[p].wrote
        /\ procs[p].busy # {}

\* ------------------------------------------------- classification index
\* line.rstrip("\n")
RECURSIVE RStripNewline(_)
RStripNewline(s) ==
    IF s # <<>> /\ s[Len(s)] = "LF"
    THEN RStripNewline(SubSeq(s, 1, Len(s) - 1))
    ELSE s

\* parts = line.rstrip("\n").split("\t")
KrakenParts(line) == Split(RStripNewline(line), "TAB")

\* The taxon id field as the key of the lineage map: a taxon id is one token
\* of the text, an empty field the empty string.
TaxidOf(field) == IF field = <<>> THEN "" ELSE Head(field)

\* The three ways a line is passed over: blank, fewer than three fields,
\* not classified when only classified reads are asked for.
RowSkipped(line, only) ==
    \/ Strip(line) = <<>>
    \/ Len(KrakenParts(line)) < 3
    \/ only /\ KrakenParts(line)[1] # <<"C">>

\* normalize_read_id raises on the read field of a line that is not passed
\* over.
RowRaises(line, only) ==
    ~RowSkipped(line, only) /\ NormalizeRaises(KrakenParts(line)[2])

\* One turn of the loop of load_kraken_read_map on a line that does not
\* raise: the index after it.
LoadRow(r2t, line, only) ==
    IF RowSkipped(line, only) THEN r2t
    ELSE Put(r2t, normalize_read_id(KrakenParts(line)[2]),
             TaxidOf(KrakenParts(line)[3]))

\* Lines of a classification stream: reads a and c classified, read b not,
\* read a classified again; a blank line and a line of two fields; lines
\* whose read field is empty, a blank, or a lone "@".
KrakenLines ==
    {<<"C", "TAB", "a", "TAB", "t1", "LF">>,
     <<"U", "TAB", "b", "TAB", "t2", "LF">>,
     <<"C", "TAB", "@", "c", " ", "1", "TAB", "t3", "LF">>,
     <<"C", "TAB", "a", "TAB", "t2", "LF">>,
     <<"LF">>,
     <<"C", "TAB", "a", "LF">>,
     <<"C", "TAB", "TAB", "t1", "LF">>,
     <<"C", "TAB", " ", "TAB", "t1", "LF">>,
     <<"U", "TAB", "@", "TAB", "t2", "LF">>}

\* A line is read and leaves the index as LoadRow says.
LoadLine(line) ==
    /\ pc = "load_kraken_read_map"
    /\ nLines < MaxLines
    /\ ~RowRaises(line, classified_only)
    /\ read_to_taxid' = LoadRow(read_to_taxid, line, classified_only)
    /\ nLines' = nLines + 1
    /\ UNCHANGED <<counts, counts_order, gc_sum, gc_n, pc, file_key, error,
                   consumed, acc0, nRecords, min_reads, rows>>
    /\ UNCHANGED classified_only
    /\ UNCHANGED <<lineageVars, cacheVars, raceVars>>

\* A line whose read field holds no read id: the IndexError of
\* normalize_read_id leaves load_kraken_read_map and write_attrition_csv.
LoadLineRaises(line) ==
    /\ pc = "load_kraken_read_map"
    /\ nLines < MaxLines
    /\ RowRaises(line, classified_only)
    /\ pc' = "raised"
    /\ error' = "IndexError"
    /\ nLines' = nLines + 1
    /\ UNCHANGED <<read_to_taxid, counts, counts_order, gc_sum, gc_n,
                   file_key, consumed, acc0, nRecords, min_reads, rows>>
    /\ UNCHANGED classified_only
    /\ UNCHANGED <<lineageVars, cacheVars, raceVars>>

\* The stream ends: the index is returned and the mapped pass begins.
LoadReturns ==
    /\ pc = "load_kraken_read_map"
    /\ pc' = "process_fastq"
    /\ UNCHANGED <<read_to_taxid, counts, counts_order, gc_sum, gc_n,
                   file_key, error, consumed, acc0, nRecords, min_reads, rows>>
    /\ UNCHANGED loadVars
    /\ UNCHANGED <<lineageVars, cacheVars, raceVars>>

\* write_attrition_csv from its first line: the lineage map is there, the
\* classification stream is about to be read.
InitLoad ==
    /\ LineageStart
    /\ taxid_to_lineage = ("t1" :> LinA) @@ ("t2" :> LinB) @@ ("t3" :> LinC)
    /\ read_to_taxid = EmptyMap
    /\ counts = EmptyMap
    /\ counts_order = <<>>
    /\ gc_sum = EmptyMap
    /\ gc_n = EmptyMap
    /\ pc = "load_kraken_read_map"
    /\ file_key = "mapped"
    /\ error = None
    /\ consumed = <<>>
    /\ acc0 = NewAcc
    /\ nRecords = 0
    /\ min_reads = 0
    /\ rows = <<>>
    /\ CacheIdle
    /\ RaceIdle
    /\ classified_only \in BOOLEAN
    /\ nLines = 0

NextLoad ==
    \/ \E line \in KrakenLines : LoadLine(line)
    \/ \E line \in KrakenLines : LoadLineRaises(line)
    \/ LoadReturns
    \/ \E rec \in Records : ReadRecord(rec)
    \/ \E rec \in Records : ReadRecordRaises(rec)
    \/ EndOfFile
    \/ TruncatedRecord
    \/ \E m \in Thresholds : WriteRows(m)

SpecLoad == InitLoad /\ [][NextLoad]_vars

\* ------------------------------------------- claims on malformed input
\* C12 as stated: no row of the classification stream and no record of a
\* read-stream file, a read-header field that is empty or blank included,
\* makes load_kraken_read_map or process_fastq raise.
C12_MalformedRowsNeverRaise == error = None

\* ------------------------------------------ claims on the GC sample count
\* C13: the GC tables and the counters have the same keys, the GC sample
\* count of every lineage equals its total, after every record of both
\* passes, and no row is written for a lineage whose GC sample count is 0.
C13_GcCountIsTotal ==
    /\ DOMAIN gc_n = DOMAIN counts
    /\ DOMAIN gc_sum = DOMAIN counts
    /\ \A k \in DOMAIN counts : gc_n[k] = counts[k].total
    /\ pc = "done" => \A i \in 1..Len(rows) :
           Get(gc_n, rows[i].lineage, 0) # 0

\* A row was written for a lineage counted twice whose sequence lines were
\* all empty: its average is 0 although its GC sample count is 2.
C13_Witness ==
    /\ pc = "done"
    /\ \E i \in 1..Len(rows) :
           /\ rows[i].total = 2
           /\ gc_n[rows[i].lineage] = 2
           /\ rows[i].avg_gc.num = 0

====
